---- MODULE Spec2Model ----
(***************************************************************************)
(* The prisoner's dilemma contract of src/contract/src/lib.rs as a state   *)
(* machine.  Every entry point (play, result, get_balance, cash_out) runs  *)
(* to completion on the contract's state, so each is one action.           *)
(*                                                                         *)
(* Amounts are u64/i64 in the source; the model keeps them far below the   *)
(* width, where the casts `as i64` / `as u64` do not change the value.     *)
(* Player.tx_id is stored by the source and never read; it is left out.    *)
(***************************************************************************)
EXTENDS Integers, Sequences, FiniteSets, TLC

VARIABLES
    balances,   \* PrisonerDilemma.balances : HashMap<sender, u64>
    pot,        \* PrisonerDilemma.pot
    threshold,  \* PrisonerDilemma.threshold
    waiting,    \* PrisonerDilemma.waiting : Vec<Match>
    history,    \* PrisonerDilemma.history : Vec<Match>
    COUNTER,    \* static mut COUNTER
    sent,       \* the Transfer transactions sent to the host, in order
    call,       \* the entry point last invoked, with its parameters
    ret,        \* what that call returned (err) and logged (log)
    pre,        \* threshold and pot as they were when that call started
    evicted,    \* ids of the matches prune_old_history has removed
    issued,     \* the ids generate_id has returned, in order
    staked      \* the sum of params.amount over the accepted plays

state == <<balances, pot, threshold, waiting, history, COUNTER>>
vars == <<balances, pot, threshold, waiting, history, COUNTER, sent, call, ret, pre,
          evicted, issued, staked>>

\* ---------------------------------------------------------------- bounds

MAX_HISTORY_CAPACITY == 100

\* Accepted plays (valid votes) of the broad specification.
MaxPlays == 3
\* Accepted plays of the long specification whose inputs are free.
FreeSteps == 4
\* Evictions from the history the long specification runs to.
MaxEvictions == 2
\* Accepted plays of the threshold specification: enough to walk the
\* threshold from its initial 50 to either end of its range.
ParkPlays == 55

Senders == {"a", "b"}
\* vote is a u8; 1 is cooperate, 2 is defect, the others are invalid.
Votes == {0, 1, 2, 3}
\* params.amount: what each sender stakes in a play.
Stakes(sender) == IF sender = "a" THEN {100} ELSE {1}
\* random() draws from [0, 100); play reads the draw only in h > threshold,
\* so the two draws at the edge stand for all of them.
Draws == {threshold, threshold + 1} \cap 0..99

\* ---------------------------------------------------------------- helpers

RECURSIVE to_string(_)
\* u32::to_string: the decimal digits, most significant first.
to_string(n) == IF n < 10 THEN <<n>> ELSE to_string(n \div 10) \o <<n % 10>>

RECURSIVE DigitsValue(_)
\* The number a digit string denotes.
DigitsValue(s) ==
    IF s = <<>> THEN 0
    ELSE 10 * DigitsValue(SubSeq(s, 1, Len(s) - 1)) + s[Len(s)]

generate_id_no_increment(c) == [counter |-> c, id |-> to_string(c + 1)]

generate_id_reuse(c) ==
    LET n == IF c >= MAX_HISTORY_CAPACITY THEN 1 ELSE c + 1
    IN  [counter |-> n, id |-> to_string(n)]

\* generate_id: COUNTER = COUNTER + 1; COUNTER.to_string()
generate_id(c) == [counter |-> c + 1, id |-> to_string(c + 1)]

prune_old_history_late(h) ==
    IF Len(h) > MAX_HISTORY_CAPACITY + 1 THEN Tail(h) ELSE h

\* The place of the match with the smallest id.
MinIdIndex(h) ==
    CHOOSE i \in 1..Len(h) :
        \A j \in 1..Len(h) : DigitsValue(h[i].id) <= DigitsValue(h[j].id)

Remove_nothing(s, i) == s

\* Vec::remove, places counted from 1.
Remove(s, i) == SubSeq(s, 1, i - 1) \o SubSeq(s, i + 1, Len(s))

prune_old_history_min_id(h) ==
    IF Len(h) > MAX_HISTORY_CAPACITY THEN Remove(h, MinIdIndex(h)) ELSE h

\* prune_old_history: if history.len() > MAX_HISTORY_CAPACITY { history.remove(0) }
prune_old_history(h) ==
    IF Len(h) > MAX_HISTORY_CAPACITY THEN Tail(h) ELSE h

\* balances.get(&sender) with None => 0
balance_of(b, sender) == IF sender \in DOMAIN b THEN b[sender] ELSE 0

\* HashMap::insert
Insert(b, sender, v) ==
    [x \in DOMAIN b \cup {sender} |-> IF x = sender THEN v ELSE b[x]]

update_balance_overwrites(b, sender, amount) ==
    Insert(b, sender, IF amount < 0 THEN 0 ELSE amount)

\* update_balance: add amount to the sender's balance, clamped at 0.
update_balance(b, sender, amount) ==
    LET updated == balance_of(b, sender) + amount
    IN  Insert(b, sender, IF updated < 0 THEN 0 ELSE updated)

Pct1_whole(p) == p

Pct1_rounded(p) == (p + 50) \div 100

\* (0.01 * pot as f64) as u64: the product truncated toward zero.
Pct1(p) == p \div 100

Pct15_rounded(p) == (15 * p + 500) \div 1000

\* (0.015 * pot as f64) as u64
Pct15(p) == (15 * p) \div 1000

Player(sender, stake, vote) == [sender |-> sender, stake |-> stake, vote |-> vote]

\* Match::new: p2 is None (the empty sequence), the payouts are 0.
Match_new(id, player) ==
    [id |-> id, p1 |-> player, p2 |-> <<>>,
     p1_payout |-> 0, p2_payout |-> 0, pot_payout |-> 0]

Match_play_keeps_stake(m, p2, p) ==
    LET done == [m EXCEPT !.p2 = <<p2>>]
    IN  IF m.p1.vote = 2 /\ p2.vote = 2
        THEN [done EXCEPT !.p1_payout = 0, !.p2_payout = 0,
                          !.pot_payout = m.p1.stake + p2.stake]
        ELSE IF m.p1.vote = 1 /\ p2.vote = 1
        THEN [done EXCEPT !.p1_payout = m.p1.stake + Pct1(p),
                          !.p2_payout = p2.stake + Pct1(p),
                          !.pot_payout = -(Pct1(p) + Pct1(p))]
        ELSE IF m.p1.vote = 1 /\ p2.vote = 2
        THEN [done EXCEPT !.p1_payout = 0,
                          !.p2_payout = p2.stake + Pct15(p),
                          !.pot_payout = -Pct15(p)]
        ELSE IF m.p1.vote = 2 /\ p2.vote = 1
        THEN [done EXCEPT !.p1_payout = (p2.stake + m.p1.stake) + Pct15(p),
                          !.pot_payout = -Pct15(p),
                          !.p2_payout = 0]
        ELSE done

\* Match::play: the payouts of the four vote pairs; then p2 = Some(p2).
\* The source negates the u64 pot share before the cast to i64; the value
\* recorded is the negative of the share.
Match_play(m, p2, p) ==
    LET done == [m EXCEPT !.p2 = <<p2>>]
    IN  IF m.p1.vote = 2 /\ p2.vote = 2
        THEN [done EXCEPT !.p1_payout = 0, !.p2_payout = 0,
                          !.pot_payout = m.p1.stake + p2.stake]
        ELSE IF m.p1.vote = 1 /\ p2.vote = 1
        THEN [done EXCEPT !.p1_payout = m.p1.stake + Pct1(p),
                          !.p2_payout = p2.stake + Pct1(p),
                          !.pot_payout = -(Pct1(p) + Pct1(p))]
        ELSE IF m.p1.vote = 1 /\ p2.vote = 2
        THEN [done EXCEPT !.p1_payout = 0,
                          !.p2_payout = (p2.stake + m.p1.stake) + Pct15(p),
                          !.pot_payout = -Pct15(p)]
        ELSE IF m.p1.vote = 2 /\ p2.vote = 1
        THEN [done EXCEPT !.p1_payout = (p2.stake + m.p1.stake) + Pct15(p),
                          !.pot_payout = -Pct15(p),
                          !.p2_payout = 0]
        ELSE done

position_last(w, sender) ==
    LET hits == {i \in 1..Len(w) : w[i].p1.sender # sender}
    IN  IF hits = {} THEN 0 ELSE CHOOSE i \in hits : \A j \in hits : i >= j

position_any(w, sender) == IF w = <<>> THEN 0 ELSE 1

\* waiting.iter_mut().position(|m| m.p1.sender != sender): the first such
\* index (from 1), or 0 for None.
position(w, sender) ==
    LET hits == {i \in 1..Len(w) : w[i].p1.sender # sender}
    IN  IF hits = {} THEN 0 ELSE CHOOSE i \in hits : \A j \in hits : i <= j

invalid_vote_above(vote) == vote > 2

\* vote != 1 && vote != 2
invalid_vote(vote) == vote # 1 /\ vote # 2

threshold_after_pairing_unfloored(t) == t - 1

\* if self.threshold > 0 { self.threshold -= 1 }
threshold_after_pairing(t) == IF t > 0 THEN t - 1 ELSE t

\* self.threshold += 1
threshold_after_parking(t) == t + 1

parked_at_threshold(h, t) == h >= t

\* random(params) > self.threshold: the admission test parks the play.
parked(h, t) == h > t

result_err_history_only(id) ==
    IF ~ \E i \in 1..Len(history) : history[i].id = id
    THEN "MatchNotFound" ELSE "Ok"

\* result's outcome for an id: waiting pool first, then the history.
result_err(id) ==
    IF \E i \in 1..Len(waiting) : waiting[i].id = id THEN "MatchStillWaiting"
    ELSE IF ~ \E i \in 1..Len(history) : history[i].id = id
    THEN "MatchNotFound" ELSE "Ok"

\* The record a paired play and a successful result log.
PayoutLog(m) ==
    <<m.p1.sender, m.p1_payout, m.p2[1].sender, m.p2_payout>>

NoCall == [op |-> "init", sender |-> "", vote |-> 0, h |-> 0, id |-> <<>>]
Snapshot == [threshold |-> threshold, pot |-> pot]

\* ---------------------------------------------------------------- actions

\* PrisonerDilemma::init
Init ==
    /\ balances = <<>>
    /\ threshold = 50
    /\ pot = 0
    /\ waiting = <<>>
    /\ history = <<>>
    /\ COUNTER = 0
    /\ sent = <<>>
    /\ call = NoCall
    /\ ret = [err |-> "Ok", log |-> <<>>]
    /\ pre = [threshold |-> 50, pot |-> 0]
    /\ evicted = {}
    /\ issued = <<>>
    /\ staked = 0

Enqueue_stakes_pot(p, t) ==
    LET g == generate_id(COUNTER)
    IN  /\ threshold' = t
        /\ COUNTER' = g.counter
        /\ waiting' = Append(waiting, Match_new(g.id, p))
        /\ issued' = Append(issued, g.id)
        /\ ret' = [err |-> "Ok", log |-> <<g.id>>]
        /\ pot' = pot + p.stake
        /\ UNCHANGED <<balances, history, sent, evicted>>

\* The tail of play shared by its two parking places: a new match for the
\* player is pushed on the waiting pool and its id is logged.
Enqueue(p, t) ==
    LET g == generate_id(COUNTER)
    IN  /\ threshold' = t
        /\ COUNTER' = g.counter
        /\ waiting' = Append(waiting, Match_new(g.id, p))
        /\ issued' = Append(issued, g.id)
        /\ ret' = [err |-> "Ok", log |-> <<g.id>>]
        /\ UNCHANGED <<balances, pot, history, sent, evicted>>

\* PrisonerDilemma::play
play(sender, vote, amount, h) ==
    \* random(params) is drawn only once the vote has passed.
    /\ call' = [NoCall EXCEPT !.op = "play", !.sender = sender, !.vote = vote,
                              !.h = IF invalid_vote(vote) THEN 0 ELSE h]
    /\ pre' = Snapshot
    /\ staked' = IF invalid_vote(vote) THEN staked ELSE staked + amount
    /\ IF invalid_vote(vote)
       THEN /\ ret' = [err |-> "InvalidVote", log |-> <<>>]
            /\ UNCHANGED <<balances, pot, threshold, waiting, history,
                           COUNTER, sent, evicted, issued>>
       ELSE LET p == Player(sender, amount, vote)
            IN  IF parked(h, threshold)
                THEN Enqueue(p, threshold_after_parking(threshold))
                ELSE LET t == threshold_after_pairing(threshold)
                         index == position(waiting, sender)
                     IN  IF index = 0
                         THEN Enqueue(p, t)
                         ELSE LET m == Match_play(waiting[index], p, pot)
                                  p2 == m.p2[1]
                                  b2 == update_balance(balances, p2.sender, m.p2_payout)
                                  b1 == update_balance(b2, m.p1.sender, m.p1_payout)
                                  new_pot == pot + m.pot_payout
                                  pushed == Append(history, m)
                                  pruned == prune_old_history(pushed)
                              IN  /\ threshold' = t
                                  /\ balances' = b1
                                  /\ pot' = IF new_pot < 0 THEN 0 ELSE new_pot
                                  /\ history' = pruned
                                  /\ waiting' = Remove(waiting, index)
                                  /\ evicted' = evicted \cup
                                        ({pushed[i].id : i \in 1..Len(pushed)}
                                         \ {pruned[i].id : i \in 1..Len(pruned)})
                                  /\ ret' = [err |-> "Ok", log |-> <<m.id>> \o PayoutLog(m)]
                                  /\ UNCHANGED <<COUNTER, sent, issued>>

\* PrisonerDilemma::result
result(id) ==
    /\ call' = [NoCall EXCEPT !.op = "result", !.id = id]
    /\ pre' = Snapshot
    /\ LET e == result_err(id)
       IN  IF e # "Ok"
           THEN ret' = [err |-> e, log |-> <<>>]
           ELSE LET found == history[CHOOSE i \in 1..Len(history) :
                                 /\ history[i].id = id
                                 /\ \A j \in 1..(i - 1) : history[j].id # id]
                IN  ret' = [err |-> "Ok", log |-> PayoutLog(found)]
    /\ UNCHANGED <<balances, pot, threshold, waiting, history, COUNTER, sent,
                   evicted, issued, staked>>

get_balance_inserts(sender) ==
    /\ call' = [NoCall EXCEPT !.op = "get_balance", !.sender = sender]
    /\ pre' = Snapshot
    /\ ret' = [err |-> "Ok", log |-> <<balance_of(balances, sender)>>]
    /\ balances' = Insert(balances, sender, balance_of(balances, sender))
    /\ UNCHANGED <<pot, threshold, waiting, history, COUNTER, sent,
                   evicted, issued, staked>>

\* PrisonerDilemma::get_balance
get_balance(sender) ==
    /\ call' = [NoCall EXCEPT !.op = "get_balance", !.sender = sender]
    /\ pre' = Snapshot
    /\ ret' = [err |-> "Ok", log |-> <<balance_of(balances, sender)>>]
    /\ UNCHANGED <<balances, pot, threshold, waiting, history, COUNTER, sent,
                   evicted, issued, staked>>

cash_out_keeps_balance(sender) ==
    /\ call' = [NoCall EXCEPT !.op = "cash_out", !.sender = sender]
    /\ pre' = Snapshot
    /\ LET sender_balance == balance_of(balances, sender)
       IN  IF sender_balance = 0
           THEN /\ ret' = [err |-> "ZeroBalance", log |-> <<>>]
                /\ UNCHANGED <<balances, sent>>
           ELSE /\ sent' = Append(sent, [destination |-> sender, amount |-> sender_balance])
                /\ balances' = balances
                /\ ret' = [err |-> "Ok", log |-> <<>>]
    /\ UNCHANGED <<pot, threshold, waiting, history, COUNTER, evicted, issued,
                   staked>>

cash_out_sends_zero(sender) ==
    /\ call' = [NoCall EXCEPT !.op = "cash_out", !.sender = sender]
    /\ pre' = Snapshot
    /\ LET sender_balance == balance_of(balances, sender)
       IN  /\ sent' = Append(sent, [destination |-> sender, amount |-> sender_balance])
           /\ balances' = Insert(balances, sender, 0)
           /\ ret' = [err |-> "Ok", log |-> <<>>]
    /\ Len(sent) < MaxPlays
    /\ UNCHANGED <<pot, threshold, waiting, history, COUNTER, evicted, issued,
                   staked>>

\* PrisonerDilemma::cash_out
cash_out(sender) ==
    /\ call' = [NoCall EXCEPT !.op = "cash_out", !.sender = sender]
    /\ pre' = Snapshot
    /\ LET sender_balance == balance_of(balances, sender)
       IN  IF sender_balance = 0
           THEN /\ ret' = [err |-> "ZeroBalance", log |-> <<>>]
                /\ UNCHANGED <<balances, sent>>
           ELSE /\ sent' = Append(sent, [destination |-> sender, amount |-> sender_balance])
                /\ balances' = Insert(balances, sender, 0)
                /\ ret' = [err |-> "Ok", log |-> <<>>]
    /\ UNCHANGED <<pot, threshold, waiting, history, COUNTER, evicted, issued,
                   staked>>

\* ---------------------------------------------------------------- specifications

\* The plays accepted so far: each created a match or completed one.
Accepted == COUNTER + Len(history) + Cardinality(evicted)

\* The ids result is asked for: every issued one, the next one, 0, and a
\* string with a leading zero.
ProbeIds == {to_string(k) : k \in 0..(COUNTER + 1)} \cup {<<0, 1>>}

PlayAny ==
    \E s \in Senders, v \in Votes, h \in Draws : \E a \in Stakes(s) :
        (~ invalid_vote(v) => Accepted < MaxPlays) /\ play(s, v, a, h)
ResultAny == \E id \in ProbeIds : result(id)
GetBalanceAny == \E s \in Senders : get_balance(s)
CashOutAny == \E s \in Senders : cash_out(s)

Next == PlayAny \/ ResultAny \/ GetBalanceAny \/ CashOutAny

Spec == Init /\ [][Next]_vars

\* The long specification: runs long enough to fill the history and evict
\* from it.  The first FreeSteps accepted plays defect, by any sender and on
\* either side of the admission test.  After them every play draws 0: with a
\* match waiting it is by the sender the head of the pool can be paired
\* with, with none waiting the two senders take turns to open one, and the
\* votes go round the four vote pairs.  Balances are cashed out while the
\* inputs are free and again once the history has evicted.
LongVotes == {0, 2}
Completed == Len(history) + Cardinality(evicted)
DrivenSender ==
    IF waiting # <<>>
    THEN (IF waiting[1].p1.sender = "a" THEN "b" ELSE "a")
    ELSE (IF Completed % 8 < 4 THEN "a" ELSE "b")
DrivenVote ==
    IF waiting # <<>>
    THEN (IF Completed % 4 \in {0, 2} THEN 2 ELSE 1)
    ELSE (IF Completed % 4 \in {0, 3} THEN 2 ELSE 1)
LongProbeIds == evicted \cup {to_string(COUNTER + 1)}

LongFreePlay ==
    /\ \E s \in Senders, v \in LongVotes, h \in Draws : \E a \in Stakes(s) :
           (~ invalid_vote(v) => Accepted < FreeSteps) /\ play(s, v, a, h)
LongDrivenPlay ==
    /\ Accepted >= FreeSteps
    /\ Cardinality(evicted) < MaxEvictions
    /\ \E a \in Stakes(DrivenSender) : play(DrivenSender, DrivenVote, a, 0)
LongResult == \E id \in LongProbeIds : result(id)
LongGetBalance == Accepted < FreeSteps /\ \E s \in Senders : get_balance(s)
LongCashOut ==
    /\ Accepted < FreeSteps \/ evicted # {}
    /\ \E s \in Senders : cash_out(s)

LongNext ==
    LongFreePlay \/ LongDrivenPlay \/ LongResult \/ LongGetBalance \/ LongCashOut

SpecLong == Init /\ [][LongNext]_vars

\* The threshold specification: every sequence of draws over ParkPlays
\* plays.  One sender defects in all of them, so no play finds a partner and
\* each state is the threshold and the length of the waiting pool; the
\* threshold moves by the draw alone.
ParkSender == "a"
ParkVote == 2
ParkPass ==
    /\ Accepted < ParkPlays
    /\ \E h \in Draws : \E a \in Stakes(ParkSender) :
           ~ parked(h, threshold) /\ play(ParkSender, ParkVote, a, h)
ParkPark ==
    /\ Accepted < ParkPlays
    /\ \E h \in Draws : \E a \in Stakes(ParkSender) :
           parked(h, threshold) /\ play(ParkSender, ParkVote, a, h)

ParkNext == ParkPass \/ ParkPark

SpecPark == Init /\ [][ParkNext]_vars

\* ---------------------------------------------------------------- claims

IdsOf(ms) == {ms[i].id : i \in 1..Len(ms)}
\* A step that is an accepted play.
AcceptedPlay == call'.op = "play" /\ ret'.err = "Ok"
Failed(e) == [err |-> e, log |-> <<>>]

\* C1 (as stated): the recorded payouts of every completed match, player
\* one's plus player two's plus the pot's, sum to zero.
C1_PayoutsSumToZero ==
    \A i \in 1..Len(history) :
        history[i].p1_payout + history[i].p2_payout + history[i].pot_payout = 0

\* C1 (amended): the recorded payouts of every completed match, player one's
\* plus player two's plus the pot's, sum to the two stakes paid in: the
\* payouts are the amounts credited, not net of the stakes.
C1_PayoutsSumToStakes ==
    \A i \in 1..Len(history) :
        history[i].p1_payout + history[i].p2_payout + history[i].pot_payout
            = history[i].p1.stake + history[i].p2[1].stake

\* The history holds a match of each of the four vote pairs, those that draw
\* on the pot completed at a pot that pays a share.
C1_Witness ==
    \A v1, v2 \in {1, 2} :
        \E i \in 1..Len(history) :
            /\ history[i].p1.vote = v1 /\ history[i].p2[1].vote = v2
            /\ history[i].pot_payout # 0

\* C2: in every completed match player two's sender differs from player
\* one's sender.
C2_NoSelfPairing ==
    \A i \in 1..Len(history) : history[i].p2[1].sender # history[i].p1.sender

\* A match completed by a sender who had two older matches of their own in
\* the waiting pool, both still there.
C2_Witness ==
    /\ history # <<>>
    /\ LET m == history[Len(history)]
       IN  Cardinality({i \in 1..Len(waiting) :
                          /\ waiting[i].p1.sender = m.p2[1].sender
                          /\ DigitsValue(waiting[i].id) < DigitsValue(m.id)}) >= 2

\* C3: the history never holds more than MAX_HISTORY_CAPACITY matches.
C3_HistoryBounded == Len(history) <= MAX_HISTORY_CAPACITY

\* The history is full and a match has been evicted from it.
C3_Witness == Len(history) = MAX_HISTORY_CAPACITY /\ evicted # {}

\* C4 (as stated): when a play completes a match while the history is full,
\* the match evicted has the smallest id of the history's matches, and result
\* no longer finds it.
C4_EvictsSmallestId ==
    [][(Len(history) = MAX_HISTORY_CAPACITY /\ history' # history) =>
        \A id \in evicted' \ evicted :
            /\ \A i \in 1..Len(history') :
                   DigitsValue(id) < DigitsValue(history'[i].id)
            /\ result_err(id)' = "MatchNotFound"]_vars

\* C4 (amended): when a play completes a match while the history is full,
\* the match evicted is the one completed earliest (the head of the history),
\* the other matches keep their order with the new one last, and result no
\* longer finds the evicted id.
C4_EvictsOldest ==
    [][(Len(history) = MAX_HISTORY_CAPACITY /\ history' # history) =>
        /\ Len(history') = MAX_HISTORY_CAPACITY
        /\ SubSeq(history', 1, MAX_HISTORY_CAPACITY - 1) = Tail(history)
        /\ history'[MAX_HISTORY_CAPACITY].p2 # <<>>
        /\ evicted' = evicted \cup {history[1].id}
        /\ \A id \in {history[1].id} : result_err(id)' = "MatchNotFound"]_vars

\* result was asked for an evicted id while a match with a smaller id is
\* still in the history, and did not find it.
C4_Witness ==
    /\ call.op = "result" /\ call.id \in evicted /\ ret.err = "MatchNotFound"
    /\ \E i \in 1..Len(history) : DigitsValue(history[i].id) < DigitsValue(call.id)

\* C5: for every id in the waiting pool result returns MatchStillWaiting and
\* logs no payouts.
C5_WaitingIsStillWaiting ==
    /\ \A id \in IdsOf(waiting) : result_err(id) = "MatchStillWaiting"
    /\ (call.op = "result" /\ call.id \in IdsOf(waiting))
          => ret = Failed("MatchStillWaiting")

\* result was asked for a waiting id after another match had completed.
C5_Witness ==
    /\ call.op = "result" /\ call.id \in IdsOf(waiting)
    /\ ret.err = "MatchStillWaiting" /\ history # <<>>

\* Ids no play was given: 0, the next ones, a string with a leading zero and
\* the empty string, less any that was issued.
NeverIssued ==
    ({to_string(0), to_string(COUNTER + 1), to_string(COUNTER + 2), <<0, 1>>, <<>>}
     \cup {to_string(k) : k \in 1..COUNTER})
        \ {issued[i] : i \in 1..Len(issued)}

\* C6: for every id never issued and every id evicted from the history,
\* result returns MatchNotFound, in every later state.
C6_NotFound ==
    /\ \A id \in evicted \cup NeverIssued : result_err(id) = "MatchNotFound"
    /\ (call.op = "result" /\ call.id \in evicted \cup NeverIssued)
          => ret = Failed("MatchNotFound")

\* result was asked for an evicted id after a later eviction.
C6_Witness ==
    /\ Cardinality(evicted) >= 2
    /\ call.op = "result" /\ call.id \in evicted /\ ret.err = "MatchNotFound"
    /\ \E id \in evicted : DigitsValue(call.id) < DigitsValue(id)

FlooredDecrement(t) == IF t = 0 THEN 0 ELSE t - 1

\* C7 (as stated): every play that ends with the player parked raises the
\* threshold by 1, and every play that passes the admission test lowers it
\* by 1, staying at 0.
C7_ParkedRaises ==
    [][AcceptedPlay =>
        /\ (Len(waiting') = Len(waiting) + 1 => threshold' = threshold + 1)
        /\ (call'.h <= threshold => threshold' = FlooredDecrement(threshold))]_vars

\* C7 (amended): every play parked by the admission test (h > threshold)
\* raises the threshold by 1, and every play that passes the test lowers it
\* by 1, staying at 0, whether it is paired or, finding no partner, parked.
C7_ThresholdRule ==
    [][AcceptedPlay =>
        /\ (call'.h > threshold =>
               threshold' = threshold + 1 /\ Len(waiting') = Len(waiting) + 1)
        /\ (call'.h <= threshold => threshold' = FlooredDecrement(threshold))]_vars

\* A play passed the admission test at threshold 0 and left it at 0.
C7_Witness ==
    /\ call.op = "play" /\ ret.err = "Ok"
    /\ pre.threshold = 0 /\ threshold = 0

\* C8: cash_out by a sender whose balance is 0 or absent returns ZeroBalance,
\* sends no transfer and changes nothing of the contract's state.
C8_ZeroBalance ==
    [][(call'.op = "cash_out" /\ balance_of(balances, call'.sender) = 0) =>
        /\ ret' = Failed("ZeroBalance")
        /\ sent' = sent
        /\ UNCHANGED <<balances, pot, threshold, waiting, history, COUNTER>>]_vars

\* cash_out was refused to a sender whose balance is stored as 0 and who was
\* never paid.
C8_Witness ==
    /\ call.op = "cash_out" /\ ret.err = "ZeroBalance"
    /\ call.sender \in DOMAIN balances /\ sent = <<>>

\* What the completed matches credited to a sender.
Credited(sender) ==
    LET RECURSIVE Sum(_)
        Sum(i) ==
            IF i = 0 THEN 0
            ELSE Sum(i - 1)
                 + (IF history[i].p1.sender = sender THEN history[i].p1_payout ELSE 0)
                 + (IF history[i].p2[1].sender = sender THEN history[i].p2_payout ELSE 0)
    IN  Sum(Len(history))
\* What the transfers sent so far pay a sender.
Paid(sender) ==
    LET RECURSIVE Sum(_)
        Sum(i) ==
            IF i = 0 THEN 0
            ELSE Sum(i - 1) + (IF sent[i].destination = sender THEN sent[i].amount ELSE 0)
    IN  Sum(Len(sent))

\* C9: cash_out by a sender with balance b > 0 sends exactly one transfer, to
\* that sender and of b, and leaves the balance at 0; a cash_out by the same
\* sender right after it returns ZeroBalance and sends nothing; and over any
\* sequence of calls no sender is paid more than the matches credited.
C9_PaysOnce ==
    [][/\ (call'.op = "cash_out" /\ balance_of(balances, call'.sender) > 0) =>
            /\ ret'.err = "Ok"
            /\ sent' = Append(sent, [destination |-> call'.sender,
                                     amount |-> balance_of(balances, call'.sender)])
            /\ balances' = Insert(balances, call'.sender, 0)
       /\ (call.op = "cash_out" /\ ret.err = "Ok"
           /\ call'.op = "cash_out" /\ call'.sender = call.sender) =>
            ret' = Failed("ZeroBalance") /\ sent' = sent
       /\ (evicted' = {} =>
            \A s \in Senders :
                Paid(s)' + balance_of(balances', s) = Credited(s)')]_vars

\* A sender who was paid asked again and was refused.
C9_Witness ==
    /\ call.op = "cash_out" /\ ret.err = "ZeroBalance"
    /\ sent # <<>> /\ sent[Len(sent)].destination = call.sender
    /\ sent[Len(sent)].amount > 0

\* C10: a play whose vote is not 1 or 2 returns InvalidVote and changes
\* nothing: no id is consumed and the threshold, the waiting pool, the
\* history, the balances and the pot are as before.
C10_InvalidVote ==
    [][(call'.op = "play" /\ call'.vote \notin {1, 2}) =>
        /\ ret' = Failed("InvalidVote")
        /\ UNCHANGED <<balances, pot, threshold, waiting, history, COUNTER,
                       sent, issued>>]_vars

\* A play with vote 0 was refused while a match was waiting.
C10_Witness ==
    /\ call.op = "play" /\ call.vote = 0 /\ ret.err = "InvalidVote"
    /\ waiting # <<>>

\* The matches the contract holds, waiting ones first.
Held == waiting \o history

\* C11: match ids are unique and strictly increasing in creation order: read
\* as numbers, the ids generate_id has returned grow from each to the next;
\* no two matches held in the waiting pool or the history carry the same id,
\* and none carries the id of an evicted match; every id issued is that of
\* one match, held or evicted, and the waiting pool holds its matches in the
\* order of their ids.
C11_IdsUniqueIncreasing ==
    /\ \A i \in 1..(Len(issued) - 1) :
           DigitsValue(issued[i]) < DigitsValue(issued[i + 1])
    /\ Cardinality(IdsOf(Held)) = Len(Held)
    /\ IdsOf(Held) \cap evicted = {}
    /\ IdsOf(Held) \cup evicted = {issued[i] : i \in 1..Len(issued)}
    /\ \A i \in 1..(Len(waiting) - 1) :
           DigitsValue(waiting[i].id) < DigitsValue(waiting[i + 1].id)
\* More than MAX_HISTORY_CAPACITY ids are out, of one, two and three digits,
\* and they are spread over the waiting pool, the history and the evicted.
C11_Witness ==
    /\ Len(issued) > MAX_HISTORY_CAPACITY
    /\ waiting # <<>>
    /\ Len(history) = MAX_HISTORY_CAPACITY
    /\ evicted # {}

\* A step that is a play completing a match, and the match it completes.
PairedPlay == AcceptedPlay /\ Len(ret'.log) = 5
Made == history'[Len(history')]
\* The last call was a play completing a match.
WasPaired == call.op = "play" /\ ret.err = "Ok" /\ Len(ret.log) = 5
Last == history[Len(history)]

\* C12 (as stated): when a cooperator is paired with a defector at pot P, the
\* cooperator's balance decreases by the cooperator's stake, the defector's
\* balance increases by both stakes plus floor(0.015 * P), and the pot
\* decreases by floor(0.015 * P), whichever of the two was waiting.
C12_CooperatorDebited ==
    [][PairedPlay /\ Made.p1.vote # Made.p2[1].vote =>
          LET coop == IF Made.p1.vote = 1 THEN Made.p1 ELSE Made.p2[1]
              defe == IF Made.p1.vote = 1 THEN Made.p2[1] ELSE Made.p1
              share == (15 * pot) \div 1000
          IN  /\ balance_of(balances', coop.sender)
                    = balance_of(balances, coop.sender) - coop.stake
              /\ balance_of(balances', defe.sender)
                    = balance_of(balances, defe.sender) + coop.stake + defe.stake + share
              /\ pot' = pot - share]_vars

\* C12 (amended): when a cooperator is paired with a defector at pot P, the
\* cooperator's balance is left as it was (the stake paid in is not credited
\* back), the defector's balance increases by both stakes plus
\* floor(0.015 * P), and the pot decreases by floor(0.015 * P), whichever of
\* the two was waiting.
C12_CooperatorForfeits ==
    [][PairedPlay /\ Made.p1.vote # Made.p2[1].vote =>
          LET coop == IF Made.p1.vote = 1 THEN Made.p1 ELSE Made.p2[1]
              defe == IF Made.p1.vote = 1 THEN Made.p2[1] ELSE Made.p1
              share == (15 * pot) \div 1000
          IN  /\ balance_of(balances', coop.sender) = balance_of(balances, coop.sender)
              /\ balance_of(balances', defe.sender)
                    = balance_of(balances, defe.sender) + coop.stake + defe.stake + share
              /\ pot' = pot - share]_vars
\* A waiting cooperator who holds a balance above their stake was paired with
\* a defector at a pot whose 1.5% is not a whole number.
C12_Witness ==
    /\ WasPaired
    /\ Last.p1.vote = 1 /\ Last.p2[1].vote = 2
    /\ balances[Last.p1.sender] > Last.p1.stake
    /\ (15 * pre.pot) % 1000 >= 500
    /\ pot = pre.pot - (15 * pre.pot) \div 1000

\* C13: when two cooperators are paired at pot P, each one's balance is
\* credited with their own stake plus floor(0.01 * P), and the pot decreases
\* by exactly 2 * floor(0.01 * P).
C13_MutualCooperation ==
    [][PairedPlay /\ Made.p1.vote = 1 /\ Made.p2[1].vote = 1 =>
          LET share == pot \div 100
          IN  /\ balance_of(balances', Made.p1.sender)
                    = balance_of(balances, Made.p1.sender) + Made.p1.stake + share
              /\ balance_of(balances', Made.p2[1].sender)
                    = balance_of(balances, Made.p2[1].sender) + Made.p2[1].stake + share
              /\ pot' = pot - 2 * share]_vars
\* Two cooperators were paired at a pot whose 1% is not a whole number, and
\* each holds more than was credited in this match.
C13_Witness ==
    /\ WasPaired
    /\ Last.p1.vote = 1 /\ Last.p2[1].vote = 1
    /\ pre.pot % 100 >= 50
    /\ pot = pre.pot - 2 * (pre.pot \div 100)
    /\ Last.p1_payout = Last.p1.stake + pre.pot \div 100
    /\ balances[Last.p1.sender] > Last.p1_payout
    /\ balances[Last.p2[1].sender] > Last.p2_payout

\* C14: a play that completes a match changes the pot by the vote pair: two
\* defectors grow it by both stakes and neither is credited anything, two
\* cooperators shrink it by 2 * floor(pot / 100), a cooperator and a defector
\* shrink it by floor(15 * pot / 1000); no other call changes the pot.
C14_PotChange ==
    [][IF PairedPlay
       THEN LET v1 == Made.p1.vote
                v2 == Made.p2[1].vote
            IN  /\ (v1 = 2 /\ v2 = 2 =>
                       /\ pot' = pot + Made.p1.stake + Made.p2[1].stake
                       /\ \A s \in Senders :
                              balance_of(balances', s) = balance_of(balances, s))
                /\ (v1 = 1 /\ v2 = 1 => pot' = pot - 2 * (pot \div 100))
                /\ (v1 # v2 => pot' = pot - (15 * pot) \div 1000)
       ELSE pot' = pot]_vars
\* Two defectors who both hold a balance were paired at a pot that was not
\* empty, which grew by their stakes; nothing was paid to either.
C14_Witness ==
    /\ WasPaired
    /\ Last.p1.vote = 2 /\ Last.p2[1].vote = 2
    /\ pre.pot > 0
    /\ pot = pre.pot + Last.p1.stake + Last.p2[1].stake
    /\ Last.p1_payout = 0 /\ Last.p2_payout = 0
    /\ \A s \in Senders : balance_of(balances, s) > 0

\* C15: a play that passes the admission test is paired with the earliest
\* waiting match whose player one is another sender: exactly that entry
\* leaves the waiting pool, the others stay in their order, and the entry,
\* joined by the incoming player, is the match completed.  With no such
\* entry the incoming player is appended as a new waiting match, and the
\* balances, the pot and the history are unchanged.
C15_EarliestPartner ==
    [][AcceptedPlay /\ call'.h <= threshold =>
          LET hits == {i \in 1..Len(waiting) : waiting[i].p1.sender # call'.sender}
              n == Len(waiting)
          IN  IF hits = {}
              THEN /\ Len(waiting') = n + 1
                   /\ SubSeq(waiting', 1, n) = waiting
                   /\ waiting'[n + 1].p1.sender = call'.sender
                   /\ waiting'[n + 1].p1.vote = call'.vote
                   /\ waiting'[n + 1].p2 = <<>>
                   /\ UNCHANGED <<balances, pot, history>>
              ELSE \E k \in hits :
                      /\ \A j \in hits : k <= j
                      /\ waiting' = SubSeq(waiting, 1, k - 1) \o SubSeq(waiting, k + 1, n)
                      /\ PairedPlay
                      /\ Made.id = waiting[k].id
                      /\ Made.p1 = waiting[k].p1
                      /\ Made.p2[1].sender = call'.sender
                      /\ Made.p2[1].vote = call'.vote]_vars
\* A match was completed with an entry from the middle of the waiting pool:
\* an older entry, of the incoming sender, was passed over, and a later
\* entry of another sender is still waiting.
C15_Witness ==
    /\ WasPaired
    /\ \E i, j \in 1..Len(waiting) :
           /\ waiting[i].p1.sender = Last.p2[1].sender
           /\ DigitsValue(waiting[i].id) < DigitsValue(Last.id)
           /\ waiting[j].p1.sender # Last.p2[1].sender
           /\ DigitsValue(waiting[j].id) > DigitsValue(Last.id)

\* C16: the life of a match.  While it waits it has no player two and its
\* payouts are zero; a match in the history has its player two; no id is in
\* the waiting pool and the history at once, and none is in the history
\* twice.  A step adds at most one match to the history, one that was
\* waiting, and otherwise leaves the matches of the history as they are,
\* players and payouts, dropping at most the oldest; no match that has been
\* in the history is in the waiting pool again.
C16_Lifecycle ==
    [][/\ \A i \in 1..Len(waiting') :
              /\ waiting'[i].p2 = <<>>
              /\ waiting'[i].p1_payout = 0
              /\ waiting'[i].p2_payout = 0
              /\ waiting'[i].pot_payout = 0
       /\ \A i \in 1..Len(history') : Len(history'[i].p2) = 1
       /\ Cardinality(IdsOf(Held')) = Len(Held')
       /\ IdsOf(waiting') \cap (IdsOf(history) \cup evicted \cup evicted') = {}
       /\ \/ history' = history
          \/ /\ \/ SubSeq(history', 1, Len(history') - 1) = history
                \/ /\ history # <<>>
                   /\ SubSeq(history', 1, Len(history') - 1) = Tail(history)
             /\ Made.id \in IdsOf(waiting)
             /\ Made.id \notin IdsOf(history) \cup evicted
      ]_vars
\* The history is full and has evicted, and the last call moved one more
\* match from the waiting pool into it.
C16_Witness ==
    /\ WasPaired
    /\ Cardinality(evicted) > 1
    /\ Len(Last.p2) = 1
    /\ Len(history) = MAX_HISTORY_CAPACITY
    /\ Last.id \notin IdsOf(waiting)

\* C17: the clamps to zero are never taken: in every play that completes a
\* match, the pot plus the pot's payout and each player's balance plus their
\* payout are not negative, and they are the values written.
C17_NoClamp ==
    [][PairedPlay =>
          LET s1 == Made.p1.sender
              s2 == Made.p2[1].sender
          IN  /\ pot + Made.pot_payout >= 0
              /\ pot' = pot + Made.pot_payout
              /\ balance_of(balances, s1) + Made.p1_payout >= 0
              /\ balance_of(balances, s2) + Made.p2_payout >= 0
              /\ balances' = [s \in DOMAIN balances \cup {s1, s2} |->
                                 balance_of(balances, s)
                                 + (IF s = s1 THEN Made.p1_payout ELSE 0)
                                 + (IF s = s2 THEN Made.p2_payout ELSE 0)]]_vars
\* The pot's payout was negative in the last match, two shares of two
\* cooperators, and the pot took it without falling below zero.
C17_Witness ==
    /\ WasPaired
    /\ Last.pot_payout < -1
    /\ Last.p1.vote = 1 /\ Last.p2[1].vote = 1
    /\ pot = pre.pot + Last.pot_payout
    /\ pot >= 0

\* C18: result and get_balance only read: whether they succeed or fail, the
\* balances, the pot, the threshold, the waiting pool, the history and the
\* id counter are as before, and nothing is sent; get_balance succeeds and
\* reports the sender's ledger entry, 0 for a sender that has none.
C18_ReadOnly ==
    [][call'.op \in {"result", "get_balance"} =>
          /\ UNCHANGED <<balances, pot, threshold, waiting, history, COUNTER, sent>>
          /\ (call'.op = "get_balance" =>
                 /\ ret'.err = "Ok"
                 /\ (call'.sender \in DOMAIN balances =>
                        ret'.log = <<balances[call'.sender]>>)
                 /\ (call'.sender \notin DOMAIN balances => ret'.log = <<0>>))]_vars
\* get_balance reported 0 to a sender with a match waiting and no ledger
\* entry, and made none.
C18_Witness ==
    /\ call.op = "get_balance"
    /\ call.sender \notin DOMAIN balances
    /\ ret = [err |-> "Ok", log |-> <<0>>]
    /\ \E i \in 1..Len(waiting) : waiting[i].p1.sender = call.sender

\* C19: in every state reachable from init, for every sequence of plays and
\* draws in [0, 100), the threshold is within [0, 99]: it is raised only by
\* a play whose draw was above it.
C19_ThresholdRange ==
    /\ threshold \in 0..99
    /\ (call.op = "play" /\ threshold > pre.threshold =>
           call.h \in 0..99 /\ call.h > pre.threshold)
\* At threshold 99 the largest draw, 99, was not parked: the play went on to
\* the waiting pool and took the threshold down to 98.
C19_Witness ==
    /\ call.op = "play"
    /\ pre.threshold = 99
    /\ call.h = 99
    /\ threshold = 98

RECURSIVE Total(_)
\* The sum of a sequence of numbers.
Total(q) == IF q = <<>> THEN 0 ELSE Head(q) + Total(Tail(q))
RECURSIVE LedgerTotal(_)
\* The sum of the balances of a set of senders.
LedgerTotal(S) ==
    IF S = {} THEN 0
    ELSE LET s == CHOOSE x \in S : TRUE
         IN  balances[s] + LedgerTotal(S \ {s})

\* C20: the contract is solvent: the balances, the pot, the transfers sent
\* and the stakes of the players still waiting add up to the stakes of all
\* the accepted plays; evictions from the history do not change that.
C20_Solvent ==
    LedgerTotal(DOMAIN balances) + pot
        + Total([i \in 1..Len(sent) |-> sent[i].amount])
        + Total([i \in 1..Len(waiting) |-> waiting[i].p1.stake])
    = staked
\* After evictions from the history, value is in all four places: a balance,
\* the pot, a transfer sent and the stake of a waiting player.
C20_Witness ==
    /\ evicted # {}
    /\ \E s \in DOMAIN balances : balances[s] > 0
    /\ pot > 0
    /\ \E i \in 1..Len(sent) : sent[i].amount > 0
    /\ waiting # <<>>
====
